---- MODULE Spec2Model ----
(***************************************************************************)
(* Model of the IELTS mock-speaking server (src/main.py): the session      *)
(* store SESSIONS, the three request handlers session_start,               *)
(* transcript_confirm and session_finish, and the browser client's         *)
(* request/response protocol (advanceExam / confirmTranscript).            *)
(*                                                                         *)
(* Session ids, question ids and prompts are TLA+ strings. A transcript is *)
(* a sequence of runs [w |-> piece, n |-> count]: the string made of the   *)
(* piece w written n times, run after run, with a single space between     *)
(* consecutive pieces (<<>> is the empty string; the piece "" between two   *)
(* spaces gives a double space). A piece is either made of whitespace      *)
(* characters only or has none at all, so the spaces between the pieces    *)
(* are the only other whitespace of the text. The regular expression and   *)
(* the string methods the handlers use are computed character by           *)
(* character on the pieces.                                                *)
(*                                                                         *)
(* A session dict refers to the canned content it was given: p2_card and   *)
(* p3_theme hold the index of the card and of the theme in their lists,    *)
(* and an entry of p1_qs holds the topic and the position of its question  *)
(* in PART1_TOPICS[topic], where the Python entry holds that string.       *)
(***************************************************************************)
EXTENDS Naturals, Integers, Sequences, FiniteSets, TLC

VARIABLES
    heap,      \* the session dicts ever created by new_session, in allocation order
    SESSIONS,  \* the module-level dict: session id (string) -> index of its dict in heap
    req,       \* the request the server served last (op "none" before any)
    resp,      \* the body of the response it returned to that request
    issued,    \* history: per session dict, the prompts transcript_confirm returned for it
    inflight   \* the confirm requests sent to the server and not yet served, in sending order

vars == <<heap, SESSIONS, req, resp, issued, inflight>>

----------------------------------------------------------------------------
(* Bounds of the model.                                                    *)

\* Spec: session dicts created (start requests served) in one behaviour.
MaxSessions == 2
\* Spec: confirm requests accepted (turns appended) over all sessions.
MaxTurns == 2
\* SpecDeep: confirm requests accepted by the one session.
MaxDeepTurns == 11
\* SpecEcho: confirm requests sent by the echoing client.
MaxEchoTurns == 3
\* SpecFinish: confirm requests accepted by the one session.
MaxFinishTurns == 4
\* SpecRace: confirms the client sends twice in one behaviour.
MaxDoubles == 2

----------------------------------------------------------------------------
(* Strings.                                                                *)

Letters ==
    {"a","b","c","d","e","f","g","h","i","j","k","l","m",
     "n","o","p","q","r","s","t","u","v","w","x","y","z",
     "A","B","C","D","E","F","G","H","I","J","K","L","M",
     "N","O","P","Q","R","S","T","U","V","W","X","Y","Z"}

\* The character class [a-zA-Z'] of the token pattern.
WordChars == Letters \cup {"'"}

\* The characters str.strip() removes.
Whitespace == {" ", "\t", "\n", "\r"}

Digits == <<"0","1","2","3","4","5","6","7","8","9">>

\* str(n) / f"{n}" of a non-negative int: its decimal digits.
RECURSIVE Str(_)
Str(n) == IF n < 10 THEN Digits[n + 1] ELSE Str(n \div 10) \o Digits[(n % 10) + 1]

CharAt(s, i) == SubSeq(s, i, i)

\* s.endswith(suffix)
EndsWith(s, suffix) ==
    /\ Len(s) >= Len(suffix)
    /\ SubSeq(s, Len(s) - Len(suffix) + 1, Len(s)) = suffix

\* A piece with no character other than whitespace ("" included).
IsBlank(w) == \A i \in 1..Len(w) : CharAt(w, i) \in Whitespace

\* text.strip(): the leading and the trailing whitespace of a text are its
\* blank pieces at either end, with the spaces that separate them.
Strip(text) ==
    LET keep == {i \in 1..Len(text) : ~IsBlank(text[i].w)}
    IN IF keep = {} THEN <<>>
       ELSE SubSeq(text, CHOOSE i \in keep : \A j \in keep : i <= j,
                         CHOOSE i \in keep : \A j \in keep : i >= j)

\* The positions where a maximal run of word characters starts, and ends.
RunStarts(s) ==
    {i \in 1..Len(s) : /\ CharAt(s, i) \in WordChars
                       /\ (i = 1 \/ CharAt(s, i - 1) \notin WordChars)}

RunEnds(s) ==
    {i \in 1..Len(s) : /\ CharAt(s, i) \in WordChars
                       /\ (i = Len(s) \/ CharAt(s, i + 1) \notin WordChars)}

\* sum(xs)
RECURSIVE SumSeq(_)
SumSeq(xs) == IF Len(xs) = 0 THEN 0 ELSE xs[1] + SumSeq(Tail(xs))

\* len(re.findall(r"[a-zA-Z']+", text)): the maximal runs of word
\* characters of a text are those of its pieces, the separating space
\* being no word character.
WordCount(text) ==
    SumSeq([i \in 1..Len(text) |-> text[i].n * Cardinality(RunStarts(text[i].w))])

\* " ".join(texts): an empty text between two others leaves a double space.
RECURSIVE JoinSp(_)
JoinSp(texts) ==
    IF Len(texts) = 0 THEN <<>>
    ELSE IF Len(texts) = 1 THEN texts[1]
    ELSE (IF texts[1] = <<>> THEN <<[w |-> "", n |-> 1]>> ELSE texts[1])
           \o (LET rest == JoinSp(Tail(texts))
               IN IF rest = <<>> THEN <<[w |-> "", n |-> 1]>> ELSE rest)

\* sum(list_of_lists, [])
RECURSIVE Flatten(_)
Flatten(xss) == IF Len(xss) = 0 THEN <<>> ELSE xss[1] \o Flatten(Tail(xss))

\* The text of piece w written n times.
Rep(w, n) == <<[w |-> w, n |-> n]>>

\* [e for i in range(...)]: the list with every element computed.
ListOf(f) == SubSeq(f, 1, Len(f))

----------------------------------------------------------------------------
(* Canned content.                                                         *)

PART1_TOPICS ==
    [home |-> <<"Do you live in a house or an apartment?",
                "What do you like most about your home?",
                "Is there anything you would like to change about your home?">>,
     work_study |-> <<"Do you work or are you a student?",
                      "Why did you choose your field?",
                      "What do you find most interesting about it?">>,
     hobbies |-> <<"What do you like to do in your free time?",
                   "How long have you had this hobby?",
                   "Do you prefer to do it alone or with others?">>]

PART2_CARDS ==
    <<[topic |-> "A market you have visited",
       prompt |-> "Describe a market you have visited. You should say: where it is, when you went there, what you bought, and explain how you felt about the place.",
       follow_up |-> "Do you think traditional markets will continue to be popular in the future?"],
      [topic |-> "A journey you enjoyed",
       prompt |-> "Describe a journey you enjoyed. You should say: where you went, why you went there, who you went with, and explain what you enjoyed about the journey.",
       follow_up |-> "How has travel changed in your country in recent years?"]>>

\* (the apostrophe of "people's" is a typographic one in the source)
PART3_THEMES ==
    <<[theme |-> "Lifestyle and tradition",
       questions |-> <<"How do traditional markets influence community life?",
                       "What are the advantages and disadvantages of modern supermarkets?",
                       "How should cities balance tradition and modernization?">>],
      [theme |-> "Transport and mobility",
       questions |-> <<"How does improved transportation affect people's work and leisure?",
                       "What are some environmental impacts of increased travel?",
                       "Should governments invest more in public transport? Why?">>]>>

INTRO == "Good morning, my name is Sarvarbek. In this mock IELTS Speaking test, I will ask you some questions. Let's begin with Part 1."

P1_FOLLOW_UP == "Could you tell me a bit more about that? For example, why is it important to you in your daily life?"

P2_PREP == "Now, Part 2. I will give you a topic, and you will have one minute to prepare and then speak for one to two minutes."

\* The thresholds of too_short.
MIN_WORDS == 35
MIN_DURATION_MS == 12000

\* The limits of random.randint(1000, 9999).
RAND_LO == 1000
RAND_HI == 9999

----------------------------------------------------------------------------
(* new_session.                                                            *)

\* random.sample(list(PART1_TOPICS.keys()), k=3): every ordering of 3 distinct keys.
TopicSamples ==
    {t \in [1..3 -> DOMAIN PART1_TOPICS] : \A i, j \in 1..3 : i # j => t[i] # t[j]}

\* sum([[{"text": q, "topic": t} for q in PART1_TOPICS[t]] for t in topics], [])
P1Questions(topics) ==
    Flatten([i \in 1..Len(topics) |->
               [j \in 1..Len(PART1_TOPICS[topics[i]]) |->
                  [text |-> j, topic |-> topics[i]]]])

\* q["text"] of an entry of p1_qs
QText(q) == PART1_TOPICS[q.topic][q.text]

\* sess["p2_card"] and sess["p3_theme"]
Card(sess) == PART2_CARDS[sess.p2_card]
Theme(sess) == PART3_THEMES[sess.p3_theme]

\* f"s_{int(time.time()*1000)}_{random.randint(1000,9999)}"
SessionId(ms, rnd) == "s_" \o Str(ms) \o "_" \o Str(rnd)

\* The dict new_session builds; ts is the clock reading, in ms, that the
\* id was made from (start_ts is a second reading of the same clock).
NewSessionDict(sid, user_id, topics, card, p3, ts) ==
    [id |-> sid, user_id |-> user_id, part |-> 1, p1_idx |-> 0,
     p1_qs |-> P1Questions(topics), p2_card |-> card, p2_spoke |-> FALSE,
     p3_idx |-> 0, p3_theme |-> p3, turns |-> <<>>, start_ts |-> ts]

\* d[k] = v on a dict
Put(d, k, v) == [x \in DOMAIN d \cup {k} |-> IF x = k THEN v ELSE d[x]]

EmptyDict == [x \in {} |-> 0]

----------------------------------------------------------------------------
(* extract_keywords.                                                       *)

Lowercase == "abcdefghijklmnopqrstuvwxyz"

\* The position of character c in string s (of distinct characters), 0 when absent.
IndexIn(c, s) ==
    IF \E i \in 1..Len(s) : CharAt(s, i) = c
    THEN CHOOSE i \in 1..Len(s) : CharAt(s, i) = c
    ELSE 0

\* The lower-case letter of each upper-case one.
ToLower ==
    [A |-> "a", B |-> "b", C |-> "c", D |-> "d", E |-> "e", F |-> "f", G |-> "g",
     H |-> "h", I |-> "i", J |-> "j", K |-> "k", L |-> "l", M |-> "m", N |-> "n",
     O |-> "o", P |-> "p", Q |-> "q", R |-> "r", S |-> "s", T |-> "t", U |-> "u",
     V |-> "v", W |-> "w", X |-> "x", Y |-> "y", Z |-> "z"]

LowerChar(c) == IF c \in DOMAIN ToLower THEN ToLower[c] ELSE c

\* s.lower()
RECURSIVE Lower(_)
Lower(s) ==
    IF Len(s) = 0 THEN ""
    ELSE IF Len(s) = 1 THEN LowerChar(s)
    ELSE LET h == Len(s) \div 2
         IN Lower(SubSeq(s, 1, h)) \o Lower(SubSeq(s, h + 1, Len(s)))

\* The k-th smallest element of a set of numbers.
Kth(S, k) == CHOOSE x \in S : Cardinality({y \in S : y < x}) = k - 1

\* re.findall(r"[a-zA-Z']+", s): the maximal runs of word characters, in order.
FindWords(s) ==
    LET starts == RunStarts(s)
        ends == RunEnds(s)
    IN ListOf([k \in 1..Cardinality(starts) |-> SubSeq(s, Kth(starts, k), Kth(ends, k))])

\* The stop list of extract_keywords.
KeywordStop ==
    {"i", "me", "my", "we", "our", "ours", "ourselves", "you", "your", "yours",
     "yourself", "yourselves", "he", "him", "his", "she", "her", "it", "its",
     "they", "them", "their", "what", "which", "who", "whom", "this", "that",
     "these", "those", "am", "is", "are", "was", "were", "be", "been", "being",
     "have", "has", "had", "do", "does", "did", "a", "an", "the", "and", "but",
     "if", "or", "because", "as", "until", "while", "of", "at", "by", "for",
     "with", "about", "against", "between", "into", "through", "during", "before",
     "after", "above", "below", "to", "from", "up", "down", "in", "out", "on",
     "off", "over", "under", "again", "further", "then", "once", "here", "there",
     "when", "where", "why", "how", "all", "any", "both", "each", "few", "more",
     "most", "other", "some", "such", "no", "nor", "not", "only", "own", "same",
     "so", "than", "too", "very", "can", "will", "just", "should", "now"}

\* Code-point order of the characters a lower-cased token can hold: "'" < "a" < ... < "z".
CharRank(c) == IF c = "'" THEN 0 ELSE IndexIn(c, Lowercase)

\* a < b on Python strings
RECURSIVE StrLess(_, _)
StrLess(a, b) ==
    IF Len(b) = 0 THEN FALSE
    ELSE IF Len(a) = 0 THEN TRUE
    ELSE IF CharAt(a, 1) = CharAt(b, 1)
         THEN StrLess(SubSeq(a, 2, Len(a)), SubSeq(b, 2, Len(b)))
         ELSE CharRank(CharAt(a, 1)) < CharRank(CharAt(b, 1))

\* The words of text.lower(), piece by piece: words[i] are those of piece i.
TextWords(text) == ListOf([i \in 1..Len(text) |-> FindWords(Lower(text[i].w))])

\* The keys of freq after the counting loop.
KeptWords(words) ==
    {w \in UNION {{words[i][j] : j \in 1..Len(words[i])} : i \in 1..Len(words)} :
        Len(w) >= 4 /\ w \notin KeywordStop}

\* freq[w]: the occurrences of w, a piece's words counting once per repeat.
Freq(text, words, w) ==
    SumSeq([i \in 1..Len(text) |->
              text[i].n * Cardinality({j \in 1..Len(words[i]) : words[i][j] = w})])

\* Variant of KeyBefore: equal counts in descending alphabetical order.
KeyBeforeDesc(text, words, x, y) ==
    \/ Freq(text, words, x) > Freq(text, words, y)
    \/ Freq(text, words, x) = Freq(text, words, y) /\ StrLess(y, x)

\* The sort key (-count, word): x comes before y.
KeyBefore(text, words, x, y) ==
    \/ Freq(text, words, x) > Freq(text, words, y)
    \/ Freq(text, words, x) = Freq(text, words, y) /\ StrLess(x, y)

\* sorted(freq.items(), key=lambda x: (-x[1], x[0])) as the list of words.
RECURSIVE SortedWords(_, _, _)
SortedWords(text, words, left) ==
    IF left = {} THEN <<>>
    ELSE LET first == CHOOSE x \in left : \A y \in left \ {x} : KeyBefore(text, words, x, y)
         IN <<first>> \o SortedWords(text, words, left \ {first})

\* xs[:k]
Take(xs, k) == SubSeq(xs, 1, IF Len(xs) < k THEN Len(xs) ELSE k)

extract_keywords(text, k) ==
    LET words == TextWords(text)
    IN Take(SortedWords(text, words, KeptWords(words)), k)

\* sep.join(xs)
RECURSIVE Join(_, _)
Join(sep, xs) == IF Len(xs) = 0 THEN ""
                 ELSE IF Len(xs) = 1 THEN xs[1]
                 ELSE xs[1] \o sep \o Join(sep, Tail(xs))

----------------------------------------------------------------------------
(* Numbers of the scoring engine (src/scoring.py). A Python float is       *)
(* modelled by the exact fraction [n |-> numerator, d |-> denominator] in  *)
(* lowest terms with d > 0; a division by zero, which raises               *)
(* ZeroDivisionError in Python, gives a fraction with d = 0.               *)

RECURSIVE GCD(_, _)
GCD(a, b) == IF b = 0 THEN a ELSE GCD(b, a % b)

\* The fraction n/d in lowest terms.
Rat(n, d) ==
    IF d = 0 THEN [n |-> n, d |-> 0]
    ELSE LET abs(x) == IF x < 0 THEN -x ELSE x
             lowest(g, s) == [n |-> s * (n \div g), d |-> s * (d \div g)]
         IN lowest(GCD(abs(n), abs(d)), IF d < 0 THEN -1 ELSE 1)

\* float(k) of an int
Num(k) == [n |-> k, d |-> 1]

RAdd(a, b) == Rat(a.n * b.d + b.n * a.d, a.d * b.d)
RSub(a, b) == Rat(a.n * b.d - b.n * a.d, a.d * b.d)
RMul(a, b) == Rat(a.n * b.n, a.d * b.d)
\* a / b
RDiv(a, b) == Rat(a.n * b.d, a.d * b.n)
RLe(a, b) == a.n * b.d <= b.n * a.d
RLt(a, b) == a.n * b.d < b.n * a.d
\* min(a, b) and max(a, b): the first argument when the two are equal; a
\* failed division (d = 0) in the second argument of min stays one
RMin(a, b) == IF b.d = 0 THEN b ELSE IF RLt(b, a) THEN b ELSE a
RMax(a, b) == IF RLt(a, b) THEN b ELSE a

\* Variant of AtLeast1: no floor.
AtLeast1Id(k) == k

\* max(1, k) of an int
AtLeast1(k) == IF k < 1 THEN 1 ELSE k

\* max(1e-6, k / unit) for an int k and a positive int unit of at most
\* 10^6: k / unit is at least 1/unit when k >= 1, and at most 0 otherwise.
AtLeastMicro(k, unit) == IF k >= 1 THEN Rat(k, unit) ELSE Rat(1, 1000000)

\* round(x) of a float: the nearest int, the even one of two equally near.
round(x) ==
    LET nearest(q, r) == IF 2 * r < x.d THEN q
                         ELSE IF 2 * r > x.d THEN q + 1
                         ELSE IF q % 2 = 0 THEN q ELSE q + 1
    IN nearest(x.n \div x.d, x.n % x.d)

----------------------------------------------------------------------------
(* metrics_from_text_and_times (src/scoring.py), on a text given as runs   *)
(* of pieces.                                                              *)

STOPWORDS ==
    {"i", "me", "my", "myself", "we", "our", "ours", "ourselves", "you", "your",
     "yours", "yourself", "yourselves", "he", "him", "his", "himself", "she",
     "her", "hers", "herself", "it", "its", "itself", "they", "them", "their",
     "theirs", "themselves", "what", "which", "who", "whom", "this", "that",
     "these", "those", "am", "is", "are", "was", "were", "be", "been", "being",
     "have", "has", "had", "having", "do", "does", "did", "doing", "a", "an",
     "the", "and", "but", "if", "or", "because", "as", "until", "while", "of",
     "at", "by", "for", "with", "about", "against", "between", "into", "through",
     "during", "before", "after", "above", "below", "to", "from", "up", "down",
     "in", "out", "on", "off", "over", "under", "again", "further", "then",
     "once", "here", "there", "when", "where", "why", "how", "all", "any", "both",
     "each", "few", "more", "most", "other", "some", "such", "no", "nor", "not",
     "only", "own", "same", "so", "than", "too", "very", "s", "t", "can", "will",
     "just", "don", "should", "now"}

\* The fillers, each as the pieces it is made of.
FILLERS ==
    <<<<"uh">>, <<"um">>, <<"erm">>, <<"like">>, <<"you", "know">>,
      <<"i", "mean">>, <<"sort", "of">>, <<"kind", "of">>, <<"well">>>>

\* The alternatives of the clause-marker pattern.
CLAUSE_MARKERS ==
    {"when", "while", "because", "although", "though", "which", "that", "who",
     "where", "if", "unless", "until", "since", "after", "before"}

\* The alternatives of the pattern verbish.
VERBISH ==
    {"am", "is", "are", "was", "were", "be", "been", "being", "do", "does",
     "did", "have", "has", "had", "go", "goes", "went", "gone", "make", "makes",
     "made", "say", "says", "said", "think", "thinks", "thought", "feel",
     "feels", "felt", "want", "wants", "wanted", "need", "needs", "needed",
     "can", "could", "will", "would", "shall", "should", "may", "might", "must"}

\* The characters \w matches (ASCII): \b lies between one of them and any other.
WChars == Letters \cup {Digits[i] : i \in 1..10} \cup {"_"}

B2I(b) == IF b THEN 1 ELSE 0

\* The same string with every stretch of equal consecutive pieces written
\* as one run.
RECURSIVE MergeRuns(_)
MergeRuns(text) ==
    IF Len(text) <= 1 THEN text
    ELSE LET rest == MergeRuns(Tail(text))
         IN IF text[1].w = rest[1].w
            THEN <<[w |-> text[1].w, n |-> text[1].n + rest[1].n]>> \o Tail(rest)
            ELSE <<text[1]>> \o rest

\* The words matched by \b(w1|w2|...)\b in a piece: the maximal runs of \w
\* characters, as <<first, last>> positions.
WRuns(s) ==
    LET starts == {i \in 1..Len(s) : /\ CharAt(s, i) \in WChars
                                      /\ (i = 1 \/ CharAt(s, i - 1) \notin WChars)}
        ends == {j \in 1..Len(s) : /\ CharAt(s, j) \in WChars
                                    /\ (j = Len(s) \/ CharAt(s, j + 1) \notin WChars)}
    IN {<<i, CHOOSE j \in ends : j >= i /\ \A k \in ends : k >= i => j <= k>> : i \in starts}

\* len(re.findall(r"\b(...)\b", s)) for alternatives that are whole words
MatchCount(s, alternatives) ==
    Cardinality({r \in WRuns(s) : SubSeq(s, r[1], r[2]) \in alternatives})

\* verbish.search(s)
Verbish(s) == MatchCount(s, VERBISH) > 0

\* t.count(" " + f + " ") for t = " " + text + " " and a filler f, on the
\* merged runs P: str.count takes the matches from left to right and skips
\* one that starts on the space the match before it ended with.
CountFiller(P, f) ==
    IF Len(f) = 1
    THEN SumSeq([i \in 1..Len(P) |-> IF P[i].w = f[1] THEN (P[i].n + 1) \div 2 ELSE 0])
    ELSE LET matches == {i \in 1..(Len(P) - 1) : P[i].w = f[1] /\ P[i + 1].w = f[2]}
             \* the matches just before match i, each sharing a space with the next
             chain(i) == Cardinality({k \in 1..(i \div 2) :
                            \A j \in 1..k : /\ (i - 2 * j) \in matches
                                            /\ P[i - 2 * j + 1].n = 1
                                            /\ P[i - 2 * j + 2].n = 1})
         IN Cardinality({i \in matches : chain(i) % 2 = 0})

\* sum(f[x] for x in DOMAIN f)
RECURSIVE SumFn(_)
SumFn(f) ==
    IF DOMAIN f = {} THEN 0
    ELSE LET x == CHOOSE x \in DOMAIN f : TRUE
         IN f[x] + SumFn([y \in DOMAIN f \ {x} |-> f[y]])

\* Counter(zip(words, words[1:])) for the words toks[i] of the pieces of P.
\* A run of n pieces gives each pair of neighbours inside its piece n
\* times and the pair (last word, first word) n - 1 times; two consecutive
\* runs that have words give the pair (last word, first word) once.
BigramCounts(P, toks) ==
    LET pairs(R, i, w) ==
            [j \in 1..(Len(w) - 1) |-> [pair |-> <<w[j], w[j + 1]>>, c |-> R[i].n]]
              \o (IF R[i].n > 1
                  THEN <<[pair |-> <<w[Len(w)], w[1]>>, c |-> R[i].n - 1]>>
                  ELSE <<>>)
              \o (IF i < Len(R)
                  THEN <<[pair |-> <<w[Len(w)], R[i + 1].toks[1]>>, c |-> 1]>>
                  ELSE <<>>)
        counter(E) ==
            [b \in {E[k].pair : k \in 1..Len(E)} |->
               SumSeq([k \in 1..Len(E) |-> IF E[k].pair = b THEN E[k].c ELSE 0])]
        zipped(R) == counter(Flatten(ListOf([i \in 1..Len(R) |-> pairs(R, i, R[i].toks)])))
    IN zipped(SelectSeq(ListOf([i \in 1..Len(P) |-> [toks |-> toks[i], n |-> P[i].n]]),
                        LAMBDA r : Len(r.toks) > 0))

\* What the scoring reads in one piece w: its lower-case form and, of that
\* form, the words of tokenize, the number of clause markers, whether it is
\* blank, whether it has a sentence end, and for what precedes its first
\* and follows its last sentence end (the whole piece when it has none)
\* whether it is non-empty and whether verbish matches it, and the number
\* of the sentences inside it and of those verbish does not match.
PieceFacts(piece) ==
    LET facts(w, end, first, last, mid) ==
            [lower |-> w, words |-> FindWords(w),
             markers |-> MatchCount(w, CLAUSE_MARKERS),
             blank |-> IsBlank(w), end |-> end,
             first |-> first # "", firstVerb |-> Verbish(first),
             last |-> last # "", lastVerb |-> Verbish(last),
             mid |-> Cardinality(mid),
             midBad |-> Cardinality({c \in mid : ~Verbish(SubSeq(w, c[1] + 1, c[2] - 1))})]
        \* the split of w at [.!?]+ : what precedes its first sentence end,
        \* what follows its last one, and the non-empty parts in between
        split(w, ends) ==
            facts(w, ends # {},
                  IF ends # {}
                  THEN SubSeq(w, 1, (CHOOSE i \in ends : \A j \in ends : i <= j) - 1)
                  ELSE w,
                  IF ends # {}
                  THEN SubSeq(w, (CHOOSE i \in ends : \A j \in ends : i >= j) + 1, Len(w))
                  ELSE w,
                  {<<p, q>> \in ends \X ends :
                      /\ p + 1 < q
                      /\ \A k \in (p + 1)..(q - 1) : k \notin ends})
        lower(w) == split(w, {i \in 1..Len(w) : CharAt(w, i) \in {".", "!", "?"}})
    IN lower(Lower(piece))

\* The pieces the transcripts of the specifications below are made of.
KnownPieces ==
    {"", "\n", "ok", "42", "it's", "a1b", "Markets", "are", "busy", "city", "traffic"}

\* PieceFacts of the known pieces and of their lower-case forms, computed
\* once.
RECURSIVE FactsOf(_)
FactsOf(S) ==
    IF S = {} THEN <<>>
    ELSE LET w == CHOOSE w \in S : TRUE
         IN (w :> PieceFacts(w)) @@ FactsOf(S \ {w})

FactsTable == FactsOf(KnownPieces \cup {Lower(w) : w \in KnownPieces})

Facts(w) ==
    LET lookup(table) == IF w \in DOMAIN table THEN table[w] ELSE PieceFacts(w)
    IN lookup(FactsTable)

\* text.lower()
LowerText(text) ==
    ListOf([i \in 1..Len(text) |-> [w |-> Facts(text[i].w).lower, n |-> text[i].n]])

\* sents of the lower-case text P, by what each sentence holds: the count
\* of the sentences left by split, strip and the filter, and of those among
\* them that verbish does not match. A sentence runs from one piece with a
\* sentence end (or the start of the text) to the next (or the end of the
\* text); a sentence with no character but whitespace is dropped.
Sentences(P) ==
    LET sents(run, D, E) ==
            LET prev(i) == IF \E j \in D : j < i
                           THEN CHOOSE j \in D : j < i /\ \A k \in D : k < i => k <= j
                           ELSE 0
                plain(i) == {k \in (prev(i) + 1)..(i - 1) : ~run[k].blank}
                \* the sentence that ends at the first sentence end of run i
                \* (i = Len(P) + 1: at the end of the text)
                some(i) == \/ prev(i) > 0 /\ run[prev(i)].last
                           \/ plain(i) # {}
                           \/ i <= Len(P) /\ run[i].first
                verb(i) == \/ prev(i) > 0 /\ run[prev(i)].lastVerb
                           \/ \E k \in plain(i) : run[k].firstVerb
                           \/ i <= Len(P) /\ run[i].firstVerb
                \* the sentence between two repeats of run i
                someRep(i) == run[i].last \/ run[i].first
                verbRep(i) == run[i].lastVerb \/ run[i].firstVerb
            IN [count |-> SumSeq([i \in 1..Len(P) |->
                            IF i \in D
                            THEN B2I(some(i)) + (P[i].n - 1) * B2I(someRep(i))
                                   + P[i].n * run[i].mid
                            ELSE 0]) + B2I(some(E)),
                bad |-> SumSeq([i \in 1..Len(P) |->
                            IF i \in D
                            THEN B2I(some(i) /\ ~verb(i))
                                   + (P[i].n - 1) * B2I(someRep(i) /\ ~verbRep(i))
                                   + P[i].n * run[i].midBad
                            ELSE 0]) + B2I(some(E) /\ ~verb(E))]
        ended(run) == sents(run, {i \in 1..Len(P) : run[i].end}, Len(P) + 1)
    IN ended(ListOf([i \in 1..Len(P) |-> Facts(P[i].w)]))

\* tokenize(text), piece by piece
tokenize(text) == ListOf([i \in 1..Len(text) |-> Facts(text[i].w).words])

metrics_from_text_and_times(text, speech_ms, pauses_ms) ==
    LET metrics(P, words, n_words, counts, sents) ==
            LET minutes == AtLeastMicro(speech_ms, 60000)
                wpm == RDiv(Num(n_words), minutes)
                filler_count == SumSeq([f \in 1..Len(FILLERS) |-> CountFiller(P, FILLERS[f])])
                filler_ratio == RDiv(Num(filler_count), Num(AtLeast1(n_words)))
                total == AtLeastMicro(speech_ms + pauses_ms, 1)
                pause_rate == RDiv(Num(pauses_ms), total)
                content(i) == {j \in 1..Len(words[i]) : words[i][j] \notin STOPWORDS}
                n_content == SumSeq([i \in 1..Len(P) |-> P[i].n * Cardinality(content(i))])
                uniq == Cardinality(UNION {{words[i][j] : j \in content(i)} : i \in 1..Len(P)})
                ttr == RDiv(Num(uniq), Num(AtLeast1(n_content)))
                repeated == SumFn([b \in {x \in DOMAIN counts : counts[x] > 1} |-> counts[b]])
                \* len(bigrams) is n_words - 1, and 0 for no word
                rep == IF n_words > 1 THEN RDiv(Num(repeated), Num(n_words - 1)) ELSE Num(0)
                clause_markers == SumSeq([i \in 1..Len(P) |-> P[i].n * Facts(P[i].w).markers])
                clause_variety == RDiv(Num(clause_markers), Num(AtLeast1(sents.count)))
                grammar_err_rate == RDiv(Num(sents.bad), Num(AtLeast1(sents.count)))
            IN [wpm |-> wpm,
                filler_ratio |-> RMin(Num(1), filler_ratio),
                pause_rate |-> RMin(Num(1), pause_rate),
                ttr |-> RMin(Num(1), ttr),
                repetition |-> RMin(Num(1), rep),
                grammar_err_rate |-> RMin(Num(1), grammar_err_rate),
                clause_variety |-> clause_variety]
        tokens(P, words) ==
            metrics(P, words, SumSeq([i \in 1..Len(P) |-> P[i].n * Len(words[i])]),
                    BigramCounts(P, words), Sentences(P))
        lowered(P) == tokens(P, tokenize(P))
    IN lowered(MergeRuns(LowerText(text)))

----------------------------------------------------------------------------
(* bands_from_metrics (src/scoring.py) and the result of session_finish.   *)

clamp(x, lo, hi) == RMax(lo, RMin(hi, x))

\* Variant of to_half: the half below.
to_half_down(x) == Rat(RMul(x, Num(2)).n \div RMul(x, Num(2)).d, 2)

\* round(x*2)/2
to_half(x) == Rat(round(RMul(x, Num(2))), 2)

\* Variant of overall_of: the largest of the four bands.
overall_max(scores) ==
    RMax(RMax(scores.fluency, scores.lexical_resource),
         RMax(scores.grammar_range_accuracy, scores.pronunciation))

\* to_half(sum(scores.values())/4)
overall_of(scores) ==
    to_half(RDiv(RAdd(RAdd(RAdd(scores.fluency, scores.lexical_resource),
                           scores.grammar_range_accuracy),
                      scores.pronunciation),
                 Num(4)))

\* The four raw bands, clamped.
raw_bands(m, asr_conf, rate_stability) ==
    [fluency |->
        clamp(RSub(Num(9), RAdd(RMul(m.pause_rate, Num(3)), RMul(m.filler_ratio, Num(4)))),
              Num(1), Num(9)),
     lexical_resource |->
        clamp(RSub(RAdd(Num(5), RMul(m.ttr, Num(6))), RMul(m.repetition, Num(2))),
              Num(1), Num(9)),
     grammar_range_accuracy |->
        clamp(RAdd(RSub(Num(6), RMul(m.grammar_err_rate, Num(8))),
                   RMul(m.clause_variety, Num(2))),
              Num(1), Num(9)),
     pronunciation |->
        clamp(RAdd(RAdd(Num(5), RMul(asr_conf, Num(3))), RMul(rate_stability, Num(2))),
              Num(1), Num(9))]

bands_from_metrics(m, asr_conf, rate_stability) ==
    LET scores(raw) == [fluency |-> to_half(raw.fluency),
                        lexical_resource |-> to_half(raw.lexical_resource),
                        grammar_range_accuracy |-> to_half(raw.grammar_range_accuracy),
                        pronunciation |-> to_half(raw.pronunciation)]
        bands(s) == [fluency |-> s.fluency,
                     lexical_resource |-> s.lexical_resource,
                     grammar_range_accuracy |-> s.grammar_range_accuracy,
                     pronunciation |-> s.pronunciation,
                     overall |-> overall_of(s)]
    IN bands(scores(raw_bands(m, asr_conf, rate_stability)))

\* The two sentences of each criterion: high band, low band (the dash of
\* "subject-verb" is a typographic one in the source).
SUMMARY ==
    [fluency |->
        [high |-> "Fluency: You spoke at a steady pace with generally coherent development; fillers and pauses did not impede communication.",
         low |-> "Fluency: Pace and pausing sometimes disrupted flow; aim to extend answers and reduce fillers for smoother delivery."],
     lexical_resource |->
        [high |-> "Lexical resource: Good range with appropriate word choice; limited repetition and some topic-specific vocabulary.",
         low |-> "Lexical resource: Range was somewhat limited with repetition; try to vary expressions and use more precise terms."],
     grammar_range_accuracy |->
        [high |-> "Grammar: Mostly accurate with a mix of simple and some complex structures; few errors affecting meaning.",
         low |-> "Grammar: Frequent basic errors and limited variety; practice complex sentences and check subject-verb agreement."],
     pronunciation |->
        [high |-> "Pronunciation: Generally clear with understandable rhythm; minor issues did not reduce intelligibility.",
         low |-> "Pronunciation: Clarity and rhythm varied; work on connected speech and reduce hesitations."]]

RECOMMENDATION == "Focus on extending answers with supporting details, vary vocabulary with precise terms, and practice complex sentences while maintaining clear rhythm."

\* The threshold of the high-band sentence, 6.5.
HIGH_BAND == Rat(13, 2)

\* Variant of Sentence: the high-band sentence only above 6.5.
SentenceStrict(criterion, band) ==
    IF RLt(HIGH_BAND, band) THEN SUMMARY[criterion].high ELSE SUMMARY[criterion].low

\* (high if bands[criterion] >= 6.5 else low)
Sentence(criterion, band) ==
    IF RLe(HIGH_BAND, band) THEN SUMMARY[criterion].high ELSE SUMMARY[criterion].low

Summary(bands) ==
    Sentence("fluency", bands.fluency) \o " "
      \o Sentence("lexical_resource", bands.lexical_resource) \o " "
      \o Sentence("grammar_range_accuracy", bands.grammar_range_accuracy) \o " "
      \o Sentence("pronunciation", bands.pronunciation)

\* Variant of ASR_CONF: a low confidence, 0.1.
ASR_CONF_LOW == Rat(1, 10)

\* asr_conf=0.7, rate_stability=0.7
ASR_CONF == Rat(7, 10)
RATE_STABILITY == Rat(7, 10)

\* The dict under "result", from the metrics of the session.
ResultOf(m) ==
    LET result(bands) ==
            [overall |-> bands.overall, fluency |-> bands.fluency,
             lexical_resource |-> bands.lexical_resource,
             grammar_range_accuracy |-> bands.grammar_range_accuracy,
             pronunciation |-> bands.pronunciation,
             summary |-> Summary(bands), recommendation |-> RECOMMENDATION]
    IN result(bands_from_metrics(m, ASR_CONF, RATE_STABILITY))

----------------------------------------------------------------------------
(* Responses.                                                              *)

\* {"next_question": {"part": ..., "question_id": ..., "text": ...}}
NextQuestion(part, qid, text) ==
    [next_question |-> [part |-> part, question_id |-> qid, text |-> text]]

\* Variant of NotFound: an empty success.
NotFoundSilent == [status |-> "ok"]

\* JSONResponse({"error": "session not found"}, status_code=404)
NotFound == [error |-> "session not found", status_code |-> 404]

\* The response to a request whose handler raised an exception.
InternalError == [error |-> "Internal Server Error"]

\* all_text and total_speech_ms of a session.
AllText(sess) ==
    Strip(JoinSp(ListOf([i \in 1..Len(sess.turns) |-> sess.turns[i].transcript])))

TotalSpeechMs(sess) == SumSeq([i \in 1..Len(sess.turns) |-> sess.turns[i].duration_ms])

\* The metrics session_finish computes for a session.
SessionMetrics(sess) == metrics_from_text_and_times(AllText(sess), TotalSpeechMs(sess), 0)

\* A division of the metrics was by zero: metrics_from_text_and_times raised
\* ZeroDivisionError.
Raised(m) == \E k \in DOMAIN m : m[k].d = 0

\* The body session_finish returns for a session dict: the result from the
\* metrics of its turns, unless computing them raised.
FinishBody(sess) ==
    LET body(m) == IF Raised(m) THEN InternalError ELSE [result |-> ResultOf(m)]
    IN body(SessionMetrics(sess))

IsError(body) == "error" \in DOMAIN body
IsResult(body) == "result" \in DOMAIN body
IsPart2Payload(body) ==
    /\ "instruction" \in DOMAIN body
    /\ "part" \in DOMAIN body
    /\ body.part = 2
HasQuestion(body) == "next_question" \in DOMAIN body

\* The entry of the history variable for a response of transcript_confirm:
\* the question id it asks, or the kind of payload.
PromptTag(body) ==
    IF HasQuestion(body) THEN body.next_question.question_id
    ELSE IF IsPart2Payload(body) THEN "part2"
    ELSE IF IsResult(body) THEN "result"
    ELSE "ok"

----------------------------------------------------------------------------
(* transcript_confirm on a session dict: the routing after the append.     *)
(* Each operator gives the dict as the branch leaves it and the body it    *)
(* returns.                                                                *)

TooShort(words, duration_ms) == words < MIN_WORDS \/ duration_ms < MIN_DURATION_MS

\* Variant of IsFollowUpId: the follow-up marker is never recognised.
IsFollowUpIdNever(qid) == FALSE

\* qid.endswith("_f")
IsFollowUpId(qid) == EndsWith(qid, "_f")

\* Variant of AppendTurn: the turn is inserted at the front.
AppendTurnFront(sess, part, qid, text, duration_ms) ==
    [sess EXCEPT !.turns = <<[part |-> part, qid |-> qid,
                              transcript |-> text, duration_ms |-> duration_ms]>> \o @]

\* Variant of AppendTurn: a turn equal to the last one is not appended again.
AppendTurnOnce(sess, part, qid, text, duration_ms) ==
    LET turn == [part |-> part, qid |-> qid, transcript |-> text, duration_ms |-> duration_ms]
    IN IF sess.turns # <<>> /\ sess.turns[Len(sess.turns)] = turn THEN sess
       ELSE [sess EXCEPT !.turns = Append(@, turn)]

AppendTurn(sess, part, qid, text, duration_ms) ==
    [sess EXCEPT !.turns = Append(@, [part |-> part, qid |-> qid,
                                     transcript |-> text, duration_ms |-> duration_ms])]

\* Variant of AdvanceP1: the cursor skips a question.
AdvanceP1Skip(sess) == [sess EXCEPT !.p1_idx = @ + 2]

\* sess["p1_idx"] += 1
AdvanceP1(sess) == [sess EXCEPT !.p1_idx = @ + 1]

\* Variant of AdvanceP3: the cursor stops at the number of questions.
AdvanceP3Capped(sess) == [sess EXCEPT !.p3_idx = IF @ < 3 THEN @ + 1 ELSE @]

\* Variant of AdvanceP3: the cursor skips a question.
AdvanceP3Skip(sess) == [sess EXCEPT !.p3_idx = @ + 2]

\* sess["p3_idx"] += 1
AdvanceP3(sess) == [sess EXCEPT !.p3_idx = @ + 1]

\* Variant of ConfirmPart1: the next prompt has the text of the question
\* before it.
ConfirmPart1Stale(sess, qid, text, duration_ms) ==
    LET words == WordCount(text)
        too_short == TooShort(words, duration_ms)
        idx == sess.p1_idx
    IN IF too_short /\ ~IsFollowUpId(qid)
       THEN [sess |-> sess,
             body |-> NextQuestion(1, "p1_" \o Str(idx) \o "_f", P1_FOLLOW_UP)]
       ELSE LET s1 == AdvanceP1(sess)
            IN IF s1.p1_idx < Len(s1.p1_qs)
               THEN [sess |-> s1,
                     body |-> NextQuestion(1, "p1_" \o Str(s1.p1_idx),
                                           QText(s1.p1_qs[s1.p1_idx]))]
               ELSE [sess |-> [s1 EXCEPT !.part = 2],
                     body |-> [instruction |-> P2_PREP, cue_card |-> Card(s1).prompt,
                               prep_seconds |-> 60, speak_seconds |-> 120, part |-> 2]]

\* The branch `if part == 1`.
ConfirmPart1(sess, qid, text, duration_ms) ==
    LET words == WordCount(text)
        too_short == TooShort(words, duration_ms)
        idx == sess.p1_idx
    IN IF too_short /\ ~IsFollowUpId(qid)
       THEN [sess |-> sess,
             body |-> NextQuestion(1, "p1_" \o Str(idx) \o "_f", P1_FOLLOW_UP)]
       ELSE LET s1 == AdvanceP1(sess)
            IN IF s1.p1_idx < Len(s1.p1_qs)
               THEN [sess |-> s1,
                     body |-> NextQuestion(1, "p1_" \o Str(s1.p1_idx),
                                           QText(s1.p1_qs[s1.p1_idx + 1]))]
               ELSE [sess |-> [s1 EXCEPT !.part = 2],
                     body |-> [instruction |-> P2_PREP, cue_card |-> Card(s1).prompt,
                               prep_seconds |-> 60, speak_seconds |-> 120, part |-> 2]]

\* Variant of Opener: the transcripts of all the turns.
OpenerAllTurns(sess) ==
    LET p2_texts == [i \in 1..Len(sess.turns) |-> sess.turns[i].transcript]
        kw == extract_keywords(JoinSp(p2_texts), 5)
    IN "Now let's talk about some broader issues related to "
         \o Join(", ", Take(kw, 2)) \o "."

\* The opener of Part 3, from the transcripts of the turns tagged part 2.
Opener(sess) ==
    LET p2 == SelectSeq(sess.turns, LAMBDA t : t.part = 2)
        p2_texts == [i \in 1..Len(p2) |-> p2[i].transcript]
        kw == extract_keywords(JoinSp(p2_texts), 5)
    IN "Now let's talk about some broader issues related to "
         \o Join(", ", Take(kw, 2)) \o "."

\* Variant of ConfirmPart2: the flag is not set by the first turn.
ConfirmPart2NoFlag(sess) ==
    IF ~sess.p2_spoke
    THEN [sess |-> sess,
          body |-> NextQuestion(2, "p2_follow", Card(sess).follow_up)]
    ELSE [sess |-> [sess EXCEPT !.part = 3],
          body |-> [instruction |-> Opener(sess),
                    next_question |-> [part |-> 3, question_id |-> "p3_0",
                                       text |-> Theme(sess).questions[1]]]]

\* The branch `elif part == 2`.
ConfirmPart2(sess) ==
    IF ~sess.p2_spoke
    THEN [sess |-> [sess EXCEPT !.p2_spoke = TRUE],
          body |-> NextQuestion(2, "p2_follow", Card(sess).follow_up)]
    ELSE LET s1 == [sess EXCEPT !.part = 3]
         IN [sess |-> s1,
             body |-> [instruction |-> Opener(s1),
                       next_question |-> [part |-> 3, question_id |-> "p3_0",
                                          text |-> Theme(s1).questions[1]]]]

\* Variant of ConfirmPart3: the result is that of the turns before this one.
ConfirmPart3Stale(sess) ==
    LET s1 == AdvanceP3(sess)
    IN IF s1.p3_idx < Len(Theme(s1).questions)
       THEN [sess |-> s1,
             body |-> NextQuestion(3, "p3_" \o Str(s1.p3_idx),
                                   Theme(s1).questions[s1.p3_idx + 1])]
       ELSE [sess |-> s1,
             body |-> FinishBody([s1 EXCEPT !.turns = SubSeq(@, 1, Len(@) - 1)])]

\* The branch `elif part == 3`.
ConfirmPart3(sess) ==
    LET s1 == AdvanceP3(sess)
    IN IF s1.p3_idx < Len(Theme(s1).questions)
       THEN [sess |-> s1,
             body |-> NextQuestion(3, "p3_" \o Str(s1.p3_idx),
                                   Theme(s1).questions[s1.p3_idx + 1])]
       ELSE [sess |-> s1, body |-> FinishBody(s1)]

\* transcript_confirm once the session dict is found: the turn is appended,
\* then the request's part selects the branch.
Route(sess, part, qid, text, duration_ms) ==
    LET s0 == AppendTurn(sess, part, qid, text, duration_ms)
    IN IF part = 1 THEN ConfirmPart1(s0, qid, text, duration_ms)
       ELSE IF part = 2 THEN ConfirmPart2(s0)
       ELSE IF part = 3 THEN ConfirmPart3(s0)
       ELSE [sess |-> s0, body |-> [status |-> "ok"]]

----------------------------------------------------------------------------
(* The request handlers.                                                   *)

\* new_session: a fresh dict is stored under the generated id, whatever
\* SESSIONS held under that id before.
new_session(user_id, ms, rnd, topics, card, p3) ==
    LET sid == SessionId(ms, rnd)
    IN /\ heap' = Append(heap, NewSessionDict(sid, user_id, topics, card, p3, ms))
       /\ SESSIONS' = Put(SESSIONS, sid, Len(heap) + 1)
       /\ issued' = Append(issued, <<>>)

\* POST /api/session/start
session_start(user_id, ms, rnd, topics, card, p3) ==
    /\ req' = [op |-> "start", tg_user_id |-> user_id]
    /\ new_session(user_id, ms, rnd, topics, card, p3)
    /\ resp' = [session_id |-> SessionId(ms, rnd), speak |-> INTRO,
                next_question |-> [part |-> 1, question_id |-> "p1_0",
                                   text |-> QText(P1Questions(topics)[1])]]

\* POST /api/transcript/confirm
transcript_confirm(sid, part, qid, transcript, duration_ms) ==
    LET text == Strip(transcript)
    IN /\ req' = [op |-> "confirm", session_id |-> sid, part |-> part, question_id |-> qid,
                  transcript |-> transcript, duration_ms |-> duration_ms]
       /\ IF sid \notin DOMAIN SESSIONS
          THEN /\ resp' = NotFound
               /\ UNCHANGED <<heap, SESSIONS, issued>>
          ELSE LET o == SESSIONS[sid]
                   served(r) ==
                       /\ heap' = [heap EXCEPT ![o] = r.sess]
                       /\ resp' = r.body
                       /\ issued' = [issued EXCEPT ![o] = Append(@, PromptTag(r.body))]
                       /\ UNCHANGED SESSIONS
               IN served(Route(heap[o], part, qid, text, duration_ms))

\* Variant of session_finish: the session is removed from the store.
session_finish_pop(sid) ==
    /\ req' = [op |-> "finish", session_id |-> sid]
    /\ resp' = IF sid \notin DOMAIN SESSIONS THEN NotFound
               ELSE FinishBody(heap[SESSIONS[sid]])
    /\ SESSIONS' = [x \in DOMAIN SESSIONS \ {sid} |-> SESSIONS[x]]
    /\ UNCHANGED <<heap, issued>>

\* POST /api/session/finish
session_finish(sid) ==
    /\ req' = [op |-> "finish", session_id |-> sid]
    /\ resp' = IF sid \notin DOMAIN SESSIONS THEN NotFound
               ELSE FinishBody(heap[SESSIONS[sid]])
    /\ UNCHANGED <<heap, SESSIONS, issued>>

Init ==
    /\ heap = <<>>
    /\ SESSIONS = EmptyDict
    /\ req = [op |-> "none"]
    /\ resp = EmptyDict
    /\ issued = <<>>
    /\ inflight = <<>>

----------------------------------------------------------------------------
(* Requests.                                                               *)

\* Readings of int(time.time()*1000), as offsets from the first one; the
\* wall clock is not monotonic, so a reading may repeat or step back.
Millis == {0}

\* Draws of random.randint(1000, 9999): the two ends of the range.
RandInts == {RAND_LO, RAND_HI}

\* Every id new_session can generate from these readings and draws.
SessionIds == {SessionId(ms, rnd) : ms \in Millis, rnd \in RandInts}

\* 35 words: the shortest transcript that is not too short.
Words35 == Rep("ok", 35)
\* 34 words.
Words34 == Rep("ok", 34)
\* 35 space-separated pieces of which one is a number: 34 word tokens.
Pieces35 == Rep("ok", 34) \o Rep("42", 1)
\* 33 words with an apostrophe and one piece the pattern splits in two: 35 tokens.
Split35 == Rep("it's", 33) \o Rep("a1b", 1)
\* "  Markets are busy \n": a short answer with surrounding whitespace.
Padded == Rep("", 2) \o Rep("Markets", 1) \o Rep("are", 1) \o Rep("busy", 1) \o Rep("\n", 1)

\* A confirm request's question_id, transcript and duration_ms.
Answer(qid, transcript, duration_ms) ==
    [qid |-> qid, transcript |-> transcript, duration_ms |-> duration_ms]

----------------------------------------------------------------------------
(* Spec: any number of clients. Start requests (two may draw the same id), *)
(* confirm and finish requests with any session id, part and question id.  *)

TotalTurns == SumSeq([o \in 1..Len(heap) |-> Len(heap[o].turns)])

SpecParts == 0..3

\* The answers sent with each part: a full one and a short, padded one in
\* Part 1, where the server looks at the length; the padded one elsewhere.
SpecAnswers(part) ==
    IF part = 1
    THEN {Answer("p1_0", Words35, 12000), Answer("p1_0", Padded, 0)}
    ELSE {Answer("p1_0", Padded, 0)}

StartReq ==
    /\ Len(heap) < MaxSessions
    /\ \E ms \in Millis, rnd \in RandInts :
         session_start("anon", ms, rnd, <<"home", "work_study", "hobbies">>,
                       1, 1)
    /\ UNCHANGED inflight

ConfirmReq ==
    \E sid \in SessionIds, part \in SpecParts : \E a \in SpecAnswers(part) :
        /\ sid \in DOMAIN SESSIONS => TotalTurns < MaxTurns
        /\ transcript_confirm(sid, part, a.qid, a.transcript, a.duration_ms)
        /\ UNCHANGED inflight

FinishReq ==
    /\ \E sid \in SessionIds : session_finish(sid)
    /\ UNCHANGED inflight

Next == StartReq \/ ConfirmReq \/ FinishReq

Spec == Init /\ [][Next]_vars

----------------------------------------------------------------------------
(* SpecDeep: one session and one client that sends confirms with any part, *)
(* whatever the server last asked, each with the same adequate answer.     *)

DeepStart ==
    /\ heap = <<>>
    /\ session_start("anon", 0, RAND_LO, <<"home", "work_study", "hobbies">>,
                     1, 1)
    /\ UNCHANGED inflight

DeepConfirm ==
    /\ heap # <<>>
    /\ Len(heap[1].turns) < MaxDeepTurns
    /\ \E part \in 1..3 :
         transcript_confirm(heap[1].id, part, "p1_0", Words35, 12000)
    /\ UNCHANGED inflight

NextDeep == DeepStart \/ DeepConfirm

SpecDeep == Init /\ [][NextDeep]_vars

----------------------------------------------------------------------------
(* The browser client (bootstrap, advanceExam, confirmTranscript): it      *)
(* answers the prompt of the last response with that prompt's part and     *)
(* question id, answers the Part-2 payload as p2_main, and stops at the    *)
(* result.                                                                 *)

\* currentPart and currentQuestionId after advanceExam(body).
ClientPart(body) == IF HasQuestion(body) THEN body.next_question.part ELSE 2

ClientQid(body) == IF HasQuestion(body) THEN body.next_question.question_id ELSE "p2_main"

\* advanceExam records an answer only for a prompt or the Part-2 payload.
ClientAsked(body) == HasQuestion(body) \/ IsPart2Payload(body)

\* confirmTranscript, with the transcript and the duration of the answer:
\* the request is sent and the client awaits the response.
confirmTranscript(transcript, duration_ms) ==
    /\ heap # <<>>
    /\ ClientAsked(resp)
    /\ transcript_confirm(heap[1].id, ClientPart(resp), ClientQid(resp),
                          transcript, duration_ms)
    /\ UNCHANGED inflight

----------------------------------------------------------------------------
(* SpecProto: one session, the browser client to the end of the exam,      *)
(* each Part-1 answer adequate (35 words, 12000 ms) or too short (34       *)
(* words).                                                                 *)

\* The answers the candidate gives in each part: those of Parts 2 and 3,
\* whose length the server does not look at, are always full ones.
ProtoAnswers(part) ==
    IF part = 1 THEN {Answer("", Words35, 12000), Answer("", Words34, 12000)}
    ELSE {Answer("", Words35, 12000)}

ProtoStart ==
    /\ heap = <<>>
    /\ session_start("anon", 0, RAND_LO, <<"hobbies", "home", "work_study">>,
                     2, 2)
    /\ UNCHANGED inflight

ProtoConfirm ==
    \E a \in ProtoAnswers(ClientPart(resp)) : confirmTranscript(a.transcript, a.duration_ms)

NextProto == ProtoStart \/ ProtoConfirm

SpecProto == Init /\ [][NextProto]_vars

----------------------------------------------------------------------------
(* SpecEcho: one session with any content, the browser client for its      *)
(* first answers, each drawn around the two thresholds of too_short.       *)

EchoTranscripts == {Words35, Words34, Pieces35, Split35}

EchoDurations == {11999, 12000}

EchoStart ==
    /\ heap = <<>>
    /\ \E topics \in TopicSamples, c \in 1..Len(PART2_CARDS), th \in 1..Len(PART3_THEMES) :
         session_start("anon", 0, RAND_LO, topics, c, th)
    /\ UNCHANGED inflight

EchoConfirm ==
    /\ heap # <<>>
    /\ Len(heap[1].turns) < MaxEchoTurns
    /\ \E tr \in EchoTranscripts, d \in EchoDurations : confirmTranscript(tr, d)

NextEcho == EchoStart \/ EchoConfirm

SpecEcho == Init /\ [][NextEcho]_vars

----------------------------------------------------------------------------
(* SpecFinish: one session; confirms with any part and an answer that is   *)
(* empty or a few words long; finish requests at any time.                 *)

\* "city"
City == Rep("city", 1)
\* "traffic traffic city"
Traffic == Rep("traffic", 2) \o Rep("city", 1)

FinAnswers ==
    {Answer("p1_0", <<>>, 0), Answer("p1_0", Padded, 0),
     Answer("p1_0", City, 12000), Answer("p1_0", Traffic, 12000)}

FinStart ==
    /\ heap = <<>>
    /\ session_start("anon", 0, RAND_LO, <<"home", "work_study", "hobbies">>,
                     1, 1)
    /\ UNCHANGED inflight

FinConfirm ==
    /\ heap # <<>>
    /\ Len(heap[1].turns) < MaxFinishTurns
    /\ \E part \in 1..3, a \in FinAnswers :
         transcript_confirm(heap[1].id, part, a.qid, a.transcript, a.duration_ms)
    /\ UNCHANGED inflight

FinFinish ==
    /\ heap # <<>>
    /\ session_finish(heap[1].id)
    /\ UNCHANGED inflight

NextFinish == FinStart \/ FinConfirm \/ FinFinish

SpecFinish == Init /\ [][NextFinish]_vars

----------------------------------------------------------------------------
(* SpecRace: one session and the browser client, whose confirm for the     *)
(* prompt of the last response is sent once, with an adequate answer, or   *)
(* twice, with an adequate or (in Part 1) a too-short answer. The requests *)
(* in flight are served one at a time: transcript_confirm has no await     *)
(* between its first read of the session and its last write (the one       *)
(* await, of session_finish, comes after the writes and session_finish     *)
(* awaits nothing), so the event loop runs each handler to its end.        *)

\* The confirm request of the client for the prompt of the last response.
ClientConfirm(a) ==
    [part |-> ClientPart(resp), question_id |-> ClientQid(resp),
     transcript |-> a.transcript, duration_ms |-> a.duration_ms]

\* The pairs of equal consecutive turns of a session: confirms sent twice.
Doubles(sess) == {k \in 1..(Len(sess.turns) - 1) : sess.turns[k] = sess.turns[k + 1]}

RaceStart ==
    /\ heap = <<>>
    /\ session_start("anon", 0, RAND_LO, <<"hobbies", "home", "work_study">>,
                     2, 2)
    /\ UNCHANGED inflight

\* confirmTranscript called once.
RaceSend ==
    /\ heap # <<>>
    /\ inflight = <<>>
    /\ ClientAsked(resp)
    /\ inflight' = <<ClientConfirm(Answer("", Words35, 12000))>>
    /\ UNCHANGED <<heap, SESSIONS, req, resp, issued>>

\* confirmTranscript called twice before a response arrives.
RaceSendTwice ==
    /\ heap # <<>>
    /\ inflight = <<>>
    /\ ClientAsked(resp)
    /\ Cardinality(Doubles(heap[1])) < MaxDoubles
    /\ \E a \in ProtoAnswers(ClientPart(resp)) :
         inflight' = <<ClientConfirm(a), ClientConfirm(a)>>
    /\ UNCHANGED <<heap, SESSIONS, req, resp, issued>>

\* The server handles one of the requests in flight, from its first
\* statement to its return.
RaceServe ==
    \E i \in 1..Len(inflight) :
        /\ transcript_confirm(heap[1].id, inflight[i].part, inflight[i].question_id,
                              inflight[i].transcript, inflight[i].duration_ms)
        /\ inflight' = SubSeq(inflight, 1, i - 1) \o SubSeq(inflight, i + 1, Len(inflight))

NextRace == RaceStart \/ RaceSend \/ RaceSendTwice \/ RaceServe

SpecRace == Init /\ [][NextRace]_vars

----------------------------------------------------------------------------
(* SpecRead: up to MaxSessions sessions with distinct ids, each answered   *)
(* to the end of the exam by a client that follows the protocol with       *)
(* adequate answers, in any interleaving; finish requests with any id at   *)
(* any time.                                                               *)

ReadStart ==
    /\ Len(heap) < MaxSessions
    /\ \E rnd \in RandInts :
         /\ SessionId(0, rnd) \notin DOMAIN SESSIONS
         /\ session_start("anon", 0, rnd, <<"home", "work_study", "hobbies">>, 1, 1)
    /\ UNCHANGED inflight

\* The confirm of the client of session o for the prompt that session is at.
ReadConfirm ==
    /\ \E o \in 1..Len(heap) :
         /\ heap[o].p3_idx < Len(Theme(heap[o]).questions)
         /\ transcript_confirm(
                heap[o].id, heap[o].part,
                IF heap[o].part = 1 THEN "p1_" \o Str(heap[o].p1_idx)
                ELSE IF heap[o].part = 3 THEN "p3_" \o Str(heap[o].p3_idx)
                ELSE IF heap[o].p2_spoke THEN "p2_follow" ELSE "p2_main",
                Words35, 12000)
    /\ UNCHANGED inflight

ReadFinish ==
    /\ \E sid \in SessionIds : session_finish(sid)
    /\ UNCHANGED inflight

NextRead == ReadStart \/ ReadConfirm \/ ReadFinish

SpecRead == Init /\ [][NextRead]_vars

----------------------------------------------------------------------------
(* SpecCalls: the pure functions of the scoring engine and of the keyword  *)
(* extraction, each applied once to inputs drawn from a grid; req holds    *)
(* the call and its arguments, resp the value returned.                    *)

\* Values of the metrics, among them those that give the raw bands 7.24
\* (filler_ratio 0.44), 7.26 (ttr 0.46, repetition 0.25), 8.75 and 6.5.
MetricsGrid ==
    [wpm : {Num(0)},
     filler_ratio : {Num(0), Rat(1, 16), Rat(11, 25), Rat(5, 8), Num(1)},
     pause_rate : {Num(0), Rat(1, 2)},
     ttr : {Num(0), Rat(3, 8), Rat(23, 50), Num(1)},
     repetition : {Num(0), Rat(1, 4), Num(1)},
     grammar_err_rate : {Num(0), Rat(1, 16), Num(1)},
     clause_variety : {Num(0), Rat(1, 4), Num(3)}]

\* The bands to_half can return: the multiples of 0.5 from 1.0 to 9.0.
HalfBands == {Rat(h, 2) : h \in 2..18}

Criteria == {"fluency", "lexical_resource", "grammar_range_accuracy", "pronunciation"}

\* Transcripts for extract_keywords: up to two runs of these pieces, and
\* 'markets markets traffic traffic traffic city'.
KwExample == Rep("markets", 2) \o Rep("traffic", 3) \o Rep("city", 1)
KwTexts ==
    LET pieces == {"Markets", "city", "traffic", "The", "town's", "busy,market"}
        runs == {<<>>} \cup {Rep(w, n) : w \in pieces, n \in 1..2}
    IN {a \o b : a \in runs, b \in runs} \cup {KwExample}
KwLimits == {0, 1, 2, 5}

\* bands_from_metrics(metrics, asr_conf=0.7, rate_stability=0.7) and the
\* result session_finish builds from it.
CallBands ==
    /\ req.op = "none"
    /\ \E m \in MetricsGrid :
         /\ req' = [op |-> "bands_from_metrics", m |-> m]
         /\ resp' = [result |-> ResultOf(m)]
    /\ UNCHANGED <<heap, SESSIONS, issued, inflight>>

\* The overall band and the summary, from any four rounded bands.
CallOverall ==
    /\ req.op = "none"
    /\ \E scores \in [Criteria -> HalfBands] :
         /\ req' = [op |-> "overall", scores |-> scores]
         /\ resp' = [overall |-> overall_of(scores), summary |-> Summary(scores)]
    /\ UNCHANGED <<heap, SESSIONS, issued, inflight>>

CallKeywords ==
    /\ req.op = "none"
    /\ \E text \in KwTexts, k \in KwLimits :
         /\ req' = [op |-> "extract_keywords", text |-> text, k |-> k]
         /\ resp' = [keywords |-> extract_keywords(text, k)]
    /\ UNCHANGED <<heap, SESSIONS, issued, inflight>>

NextCalls == CallBands \/ CallOverall \/ CallKeywords

SpecCalls == Init /\ [][NextCalls]_vars

----------------------------------------------------------------------------
(* Properties.                                                             *)

IsPrefix(xs, ys) == Len(xs) <= Len(ys) /\ SubSeq(ys, 1, Len(xs)) = xs

\* The occurrences of x in a sequence.
Count(xs, x) == Cardinality({k \in 1..Len(xs) : xs[k] = x})

\* The question ids of Part 1: of question i, and of its follow-up.
BaseIds == [i \in 0..8 |-> "p1_" \o Str(i)]
FollowIds == [i \in 0..8 |-> "p1_" \o Str(i) \o "_f"]
BaseId(i) == BaseIds[i]
FollowId(i) == FollowIds[i]
FollowIdSet == {FollowIds[i] : i \in 0..8}

\* What a confirm answers with once the cursor has moved past question i.
AfterId(i) == IF i + 1 < 9 THEN BaseId(i + 1) ELSE "part2"

\* An answer of fewer than 35 word tokens or of less than 12000 ms.
ShortTurn(t) == WordCount(t.transcript) < 35 \/ t.duration_ms < 12000

\* How many of the first k responses are no Part-1 follow-up prompt.
Advances(tags, k) == Cardinality({j \in 1..k : tags[j] \notin FollowIdSet})

\* C1: with the browser client, a too-short answer to base question p1_<i>
\* is answered by the follow-up p1_<i>_f, an answer that is not too short
\* (35 words and 12000 ms included) and every answer to a follow-up by the
\* prompt after question i; the cursor counts the answers of the second
\* kind, so it stays on a follow-up and moves by 1 otherwise; and no
\* follow-up is asked twice.
C1_FollowUpOncePerIndex ==
    \A o \in DOMAIN heap :
        LET turns == heap[o].turns
            tags == issued[o]
            p1 == {k \in 1..Len(turns) : turns[k].part = 1}
        IN /\ \A k \in p1 :
                \E i \in 0..8 :
                    \/ /\ turns[k].qid = BaseId(i)
                       /\ ShortTurn(turns[k])
                       /\ tags[k] = FollowId(i)
                    \/ /\ turns[k].qid = BaseId(i)
                       /\ ~ShortTurn(turns[k])
                       /\ tags[k] = AfterId(i)
                    \/ /\ turns[k].qid = FollowId(i)
                       /\ tags[k] = AfterId(i)
           /\ \A i \in 0..8 : Count(tags, FollowId(i)) <= 1
           /\ heap[o].part = 1 => heap[o].p1_idx = Advances(tags, Len(tags))

\* C1 witness: two too-short answers in a row to question 0, one follow-up,
\* and the cursor moved on to question 1.
C1_Witness ==
    /\ Len(heap) = 1
    /\ Len(heap[1].turns) = 2
    /\ ShortTurn(heap[1].turns[1])
    /\ ShortTurn(heap[1].turns[2])
    /\ issued[1] = <<"p1_0_f", "p1_1">>
    /\ heap[1].p1_idx = 1

\* The question list new_session builds from a sample of topics: 3 blocks
\* of the 3 questions of one topic, in order, the topics distinct.
NineQuestions(qs) ==
    /\ Len(qs) = 9
    /\ \A b \in 0..2 : \A j \in 1..3 :
          /\ qs[3 * b + j].topic = qs[3 * b + 1].topic
          /\ QText(qs[3 * b + j]) = PART1_TOPICS[qs[3 * b + 1].topic][j]
    /\ Cardinality({qs[3 * b + 1].topic : b \in 0..2}) = 3

\* Every sample of topics gives such a list.
EverySampleNine == \A topics \in TopicSamples : NineQuestions(P1Questions(topics))

\* C2: every session has 9 Part-1 questions, 3 topics of 3; with the
\* browser client the Part-2 payload is returned once, when the session is
\* in part 2 or later, by the confirm that answers question 8 (or its
\* follow-up) and leaves the cursor at 9, after one answer to each of the
\* 9 questions and at most one to a follow-up of each.
C2_Part2PayloadOnce ==
    /\ EverySampleNine
    /\ \A o \in DOMAIN heap :
        LET turns == heap[o].turns
            tags == issued[o]
        IN /\ NineQuestions(heap[o].p1_qs)
           /\ Count(tags, "part2") <= 1
           /\ (heap[o].part >= 2) = (Count(tags, "part2") = 1)
           /\ \A k \in 1..Len(tags) :
                 tags[k] = "part2" =>
                    /\ turns[k].qid \in {BaseId(8), FollowId(8)}
                    /\ heap[o].p1_idx = 9
                    /\ Advances(tags, k) = 9
                    /\ k <= 18
                    /\ \A i \in 0..8 :
                          /\ Cardinality({j \in 1..k : turns[j].qid = BaseId(i)}) = 1
                          /\ Cardinality({j \in 1..k : turns[j].qid = FollowId(i)}) <= 1
    /\ IsPart2Payload(resp) =>
          resp = [instruction |-> P2_PREP, cue_card |-> Card(heap[1]).prompt,
                  prep_seconds |-> 60, speak_seconds |-> 120, part |-> 2]

\* C2 witness: the Part-2 payload in answer to the 18th confirm, every
\* question having had its follow-up.
C2_Witness ==
    /\ Len(heap) = 1
    /\ IsPart2Payload(resp)
    /\ Len(heap[1].turns) = 18
    /\ heap[1].part = 2

\* The turns tagged with a part.
TurnsOf(sess, part) == {k \in 1..Len(sess.turns) : sess.turns[k].part = part}

\* C3: with the browser client the exam ends: every response before the
\* result asks for another answer, no session holds more than 23 turns,
\* and when the result is returned the session holds 9 to 18 part-1 turns,
\* then 2 part-2 turns, then 3 part-3 turns, 14 in all when no answer was
\* too short.
C3_ExamTerminates ==
    \A o \in DOMAIN heap :
        LET sess == heap[o]
            n == Len(sess.turns)
        IN /\ n <= 23
           /\ IsResult(resp) \/ ClientAsked(resp)
           /\ IsResult(resp) =>
                 /\ Cardinality(TurnsOf(sess, 1)) \in 9..18
                 /\ Cardinality(TurnsOf(sess, 2)) = 2
                 /\ Cardinality(TurnsOf(sess, 3)) = 3
                 /\ \A j, k \in 1..n : j < k => sess.turns[j].part <= sess.turns[k].part
                 /\ n >= 14
                 /\ (\A k \in 1..n : ~ShortTurn(sess.turns[k])) => n = 14

\* C3 witness: the result after 23 confirms.
C3_Witness ==
    /\ Len(heap) = 1
    /\ IsResult(resp)
    /\ Len(heap[1].turns) = 23

\* C4: the part of a session is 1, 2 or 3 and no request lowers it.
C4_PartNeverDecreases ==
    [][\A o \in DOMAIN heap :
          /\ heap'[o].part \in {1, 2, 3}
          /\ heap'[o].part >= heap[o].part]_vars

\* C5: the Part-1 cursor never exceeds the number of Part-1 questions.
C5_P1CursorBounded ==
    \A o \in DOMAIN heap : heap[o].p1_idx <= Len(heap[o].p1_qs)

\* C6: the Part-3 cursor never exceeds 3.
C6_P3CursorBounded ==
    \A o \in DOMAIN heap : heap[o].p3_idx <= 3

\* C7: the prompt p2_follow is returned at most once for a session, and
\* the flag of the session is set exactly when it has been returned (the
\* history only grows, so the flag is set once and never reset).
C7_P2FollowOnce ==
    \A o \in DOMAIN heap :
        /\ Count(issued[o], "p2_follow") <= 1
        /\ heap[o].p2_spoke = (Count(issued[o], "p2_follow") = 1)

\* C7 witness: two part-2 confirms on a session, the second answered by
\* the first Part-3 question.
C7_Witness ==
    \E o \in DOMAIN heap :
        /\ heap[o].p2_spoke
        /\ issued[o] = <<"p2_follow", "p3_0">>

C9_UnknownSession ==
    [][req'.op \in {"confirm", "finish"} =>
          IF req'.session_id \in DOMAIN SESSIONS
          THEN "error" \notin DOMAIN resp'
          ELSE /\ resp' = [error |-> "session not found", status_code |-> 404]
               /\ DOMAIN resp' \cap {"result", "next_question", "instruction", "status"} = {}
               /\ UNCHANGED <<heap, SESSIONS, issued>>]_vars

\* C9 witness: the error in answer to a confirm, the store holding a
\* session with a turn.
C9_Witness ==
    /\ req.op = "confirm"
    /\ req.session_id \notin DOMAIN SESSIONS
    /\ IsError(resp)
    /\ \E o \in DOMAIN heap : Len(heap[o].turns) > 0

\* C10: the sessions created have distinct ids, each with its own entry
\* in the store.
C10_SessionIdsUnique ==
    /\ \A o1, o2 \in DOMAIN heap : o1 # o2 => heap[o1].id # heap[o2].id
    /\ Cardinality(DOMAIN SESSIONS) = Len(heap)


----------------------------------------------------------------------------
(* The scoring engine.                                                     *)

\* The four criteria of a result, in the order of the summary.
CriteriaSeq == <<"fluency", "lexical_resource", "grammar_range_accuracy", "pronunciation">>

\* x is a multiple of 0.5 in [1.0, 9.0].
IsHalfBand(x) == x.d \in {1, 2} /\ RLe(Num(1), x) /\ RLe(x, Num(9))

\* |a - b| <= 0.25
Within025(a, b) == RLe(RSub(a, b), Rat(1, 4)) /\ RLe(RSub(b, a), Rat(1, 4))

\* C11: every band bands_from_metrics reports is a multiple of 0.5 in
\* [1.0, 9.0] and lies within 0.25 of the clamped raw value it was rounded
\* from.
C11_BandsRounded ==
    req.op = "bands_from_metrics" =>
        LET raw == raw_bands(req.m, ASR_CONF, RATE_STABILITY)
        IN \A c \in Criteria :
              /\ IsHalfBand(resp.result[c])
              /\ RLe(Num(1), raw[c]) /\ RLe(raw[c], Num(9))
              /\ Within025(resp.result[c], raw[c])

\* C11 witness: a raw fluency of 7.24 is reported as 7.0 and a raw lexical
\* resource of 7.26 as 7.5, beside a grammar value clamped from 12 to 9.0.
C11_Witness ==
    /\ req.op = "bands_from_metrics"
    /\ raw_bands(req.m, ASR_CONF, RATE_STABILITY).fluency = Rat(724, 100)
    /\ resp.result.fluency = Num(7)
    /\ raw_bands(req.m, ASR_CONF, RATE_STABILITY).lexical_resource = Rat(726, 100)
    /\ resp.result.lexical_resource = Rat(15, 2)
    /\ req.m.clause_variety = Num(3)
    /\ resp.result.grammar_range_accuracy = Num(9)

\* The mean of the four bands of a record.
MeanOf(b) ==
    RDiv(RAdd(RAdd(b.fluency, b.lexical_resource),
              RAdd(b.grammar_range_accuracy, b.pronunciation)), Num(4))

\* o is the mean of the four bands of b rounded to a half: a multiple of 0.5
\* within 0.25 of the mean, between the least and the greatest of the four.
IsOverallOf(o, b) ==
    /\ o.d \in {1, 2}
    /\ Within025(o, MeanOf(b))
    /\ \E c \in Criteria : RLe(b[c], o)
    /\ \E c \in Criteria : RLe(o, b[c])

\* C12: the overall band is the mean of the four rounded bands, rounded to
\* the nearest 0.5: for every four multiples of 0.5 in [1.0, 9.0] it is a
\* multiple of 0.5 within 0.25 of their mean and between their minimum and
\* maximum, and the overall of a result is that of the result's own bands.
C12_OverallIsRoundedMean ==
    /\ req.op = "overall" => IsOverallOf(resp.overall, req.scores)
    /\ req.op = "bands_from_metrics" => IsOverallOf(resp.result.overall, resp.result)

\* C12 witness: the bands 7.0, 6.5, 8.0, 6.0 (mean 6.875) give 7.0.
C12_Witness ==
    /\ req.op = "overall"
    /\ req.scores.fluency = Num(7)
    /\ req.scores.lexical_resource = Rat(13, 2)
    /\ req.scores.grammar_range_accuracy = Num(8)
    /\ req.scores.pronunciation = Num(6)
    /\ resp.overall = Num(7)

----------------------------------------------------------------------------
(* Keyword extraction.                                                     *)

\* The tokens of text.lower() and how often each occurs.
TokensOf(text) ==
    UNION {{TextWords(text)[i][j] : j \in 1..Len(TextWords(text)[i])} : i \in 1..Len(text)}

Occurrences(text, w) ==
    SumSeq([i \in 1..Len(text) |->
              text[i].n * Count(TextWords(text)[i], w)])

\* x is listed before y: more occurrences, or as many and x < y.
ListedBefore(text, x, y) ==
    \/ Occurrences(text, x) > Occurrences(text, y)
    \/ Occurrences(text, x) = Occurrences(text, y) /\ StrLess(x, y)

\* The tokens extract_keywords may return: four characters or more, not in
\* the stop list.
Eligible(text) == {w \in TokensOf(text) : Len(w) >= 4 /\ w \notin KeywordStop}

\* C13: extract_keywords(text, k) returns at most k distinct lower-cased
\* tokens of the text, none shorter than four characters or in the stop
\* list, by descending frequency and then ascending alphabetical order; the
\* tokens left out come after every token returned.
C13_KeywordsOrdered ==
    req.op = "extract_keywords" =>
        LET kw == resp.keywords
            eligible == Eligible(req.text)
        IN /\ Len(kw) <= req.k
           /\ Len(kw) = IF Cardinality(eligible) < req.k THEN Cardinality(eligible) ELSE req.k
           /\ \A i \in 1..Len(kw) : kw[i] \in eligible /\ kw[i] = Lower(kw[i])
           /\ \A i, j \in 1..Len(kw) : i < j => ListedBefore(req.text, kw[i], kw[j])
           /\ \A w \in eligible :
                 (\A i \in 1..Len(kw) : kw[i] # w)
                     => \A i \in 1..Len(kw) : ListedBefore(req.text, kw[i], w)

\* C13 witness: 'markets markets traffic traffic traffic city' with k = 2
\* gives ['traffic', 'markets'].
C13_Witness ==
    /\ req.op = "extract_keywords"
    /\ req.text = KwExample
    /\ req.k = 2
    /\ resp.keywords = <<"traffic", "markets">>

----------------------------------------------------------------------------
(* The summary.                                                            *)

\* summary is four sentences, one per criterion in the fixed order, joined
\* by single spaces, the high-band one exactly for the bands of b that are
\* 6.5 or more.
IsSummaryOf(summary, b) ==
    \E pick \in [1..4 -> {"high", "low"}] :
        /\ summary = SUMMARY[CriteriaSeq[1]][pick[1]] \o " "
                        \o SUMMARY[CriteriaSeq[2]][pick[2]] \o " "
                        \o SUMMARY[CriteriaSeq[3]][pick[3]] \o " "
                        \o SUMMARY[CriteriaSeq[4]][pick[4]]
        /\ \A i \in 1..4 : pick[i] = "high" <=> RLe(Rat(13, 2), b[CriteriaSeq[i]])

\* C15: the summary is exactly four sentences in the order fluency, lexical
\* resource, grammar, pronunciation, joined by single spaces, and the
\* high-band sentence of a criterion is chosen if and only if its rounded
\* band is 6.5 or more.
C15_SummaryByThreshold ==
    /\ req.op = "overall" => IsSummaryOf(resp.summary, req.scores)
    /\ req.op = "bands_from_metrics" => IsSummaryOf(resp.result.summary, resp.result)

\* C15 witness: a result with a fluency band of exactly 6.5, which has the
\* high-band sentence, and a grammar band of exactly 6.0, which has the
\* low-band one.
C15_Witness ==
    /\ req.op = "bands_from_metrics"
    /\ resp.result.fluency = Rat(13, 2)
    /\ resp.result.grammar_range_accuracy = Num(6)
    /\ \E rest \in {SUMMARY.lexical_resource.high, SUMMARY.lexical_resource.low} :
         resp.result.summary =
             SUMMARY.fluency.high \o " " \o rest \o " "
               \o SUMMARY.grammar_range_accuracy.low \o " " \o SUMMARY.pronunciation.high

----------------------------------------------------------------------------
(* Finishing a session.                                                    *)

\* The session has no turn, or only turns with an empty transcript and a
\* duration of 0.
Degenerate(sess) ==
    \A i \in 1..Len(sess.turns) :
        sess.turns[i].transcript = <<>> /\ sess.turns[i].duration_ms = 0

RatioMetrics == {"filler_ratio", "pause_rate", "ttr", "repetition", "grammar_err_rate"}

\* C14: finishing a session whose turns are absent or all have an empty
\* transcript and duration_ms = 0 raises no error and returns a result; no
\* metric is a division by zero, wpm = 0, ttr = 0 and every ratio metric is
\* in [0, 1].
C14_MetricFloors ==
    (heap # <<>> /\ Degenerate(heap[1])) =>
        LET m == SessionMetrics(heap[1])
        IN /\ ~Raised(m)
           /\ m.wpm = Num(0)
           /\ m.ttr = Num(0)
           /\ \A r \in RatioMetrics : RLe(Num(0), m[r]) /\ RLe(m[r], Num(1))
           /\ ~IsError(resp)
           /\ req.op = "finish" => IsResult(resp)

\* C14 witness: a finish request on a session with two turns or more, all
\* of an empty transcript and duration 0, is answered with a result.
C14_Witness ==
    /\ req.op = "finish"
    /\ heap # <<>>
    /\ Len(heap[1].turns) >= 2
    /\ Degenerate(heap[1])
    /\ IsResult(resp)
    /\ SessionMetrics(heap[1]).wpm = Num(0)

----------------------------------------------------------------------------
(* The order of the prompts.                                               *)

BaseIdSet == {BaseIds[i] : i \in 0..8}

\* The Part-1 base prompts among the first k responses of transcript_confirm.
BasePrompts(tags, k) == SelectSeq(SubSeq(tags, 1, k), LAMBDA g : g \in BaseIdSet)

\* C16: with the browser client the Part-1 base prompts are issued in cursor
\* order, each once and none skipped: p1_0 by the start, and the base
\* prompts the confirms return are p1_1, p1_2, ... in this order, p1_<i>
\* with i the cursor after the advance and the text of question i of the
\* session's list; a follow-up prompt is p1_<i>_f with i the cursor, which
\* the confirm left unchanged.
C16_Part1PromptsInOrder ==
    /\ (req.op = "start") =>
          /\ resp.next_question.question_id = BaseId(0)
          /\ resp.next_question.text = QText(heap[1].p1_qs[1])
    /\ \A o \in DOMAIN heap :
         LET tags == issued[o]
             base == BasePrompts(tags, Len(tags))
         IN /\ Len(base) <= 8
            /\ \A n \in 1..Len(base) : base[n] = BaseId(n)
            /\ heap[o].p1_idx <= 9
            /\ Len(base) = IF heap[o].p1_idx = 9 THEN 8 ELSE heap[o].p1_idx
            /\ \A k \in 1..Len(tags) :
                  /\ tags[k] \in BaseIdSet =>
                        /\ tags[k] = BaseId(Advances(tags, k))
                        /\ Advances(tags, k) = Advances(tags, k - 1) + 1
                  /\ tags[k] \in FollowIdSet =>
                        /\ tags[k] = FollowId(Advances(tags, k))
                        /\ Advances(tags, k) = Advances(tags, k - 1)
            /\ heap[o].part = 1 => heap[o].p1_idx = Advances(tags, Len(tags))
    /\ (req.op = "confirm" /\ HasQuestion(resp) /\ resp.next_question.part = 1) =>
          LET q == resp.next_question
              i == heap[1].p1_idx
          IN /\ i \in 0..8
             /\ \/ q.question_id = BaseId(i) /\ q.text = QText(heap[1].p1_qs[i + 1])
                \/ q.question_id = FollowId(i) /\ q.text = P1_FOLLOW_UP

\* C16 witness: the confirm that returns p1_8, with the text of the last
\* question of the list, after p1_1 to p1_7 and the follow-ups of
\* questions 0 and 7.
C16_Witness ==
    /\ req.op = "confirm"
    /\ HasQuestion(resp)
    /\ resp.next_question.question_id = "p1_8"
    /\ resp.next_question.text = QText(heap[1].p1_qs[9])
    /\ heap[1].p1_idx = 8
    /\ BasePrompts(issued[1], Len(issued[1]))
          = <<"p1_1", "p1_2", "p1_3", "p1_4", "p1_5", "p1_6", "p1_7", "p1_8">>
    /\ Count(issued[1], "p1_0_f") = 1
    /\ Count(issued[1], "p1_7_f") = 1

\* C17: Part 2 takes two turns: the first part-2 confirm of a session sets
\* the flag, leaves the part and the Part-3 cursor unchanged and returns the
\* card's follow-up as p2_follow; every part-2 confirm made with the flag
\* set sets the part to 3 and returns the opener with the first Part-3
\* question as p3_0, the Part-3 cursor being 0.
C17_Part2TwoTurns ==
    [][(req'.op = "confirm" /\ req'.part = 2 /\ heap # <<>>) =>
          IF ~heap[1].p2_spoke
          THEN /\ heap'[1].p2_spoke
               /\ heap'[1].part = heap[1].part
               /\ heap'[1].p3_idx = heap[1].p3_idx
               /\ resp' = NextQuestion(2, "p2_follow", Card(heap[1]).follow_up)
          ELSE /\ heap'[1].p2_spoke
               /\ heap'[1].part = 3
               /\ HasQuestion(resp')
               /\ "instruction" \in DOMAIN resp'
               /\ resp'.next_question = [part |-> 3, question_id |-> "p3_0",
                                         text |-> Theme(heap[1]).questions[1]]
               /\ heap'[1].p3_idx = 0]_vars

\* The turn a confirm request appends.
TurnOf(r) ==
    [part |-> r.part, qid |-> r.question_id, transcript |-> Strip(r.transcript),
     duration_ms |-> r.duration_ms]

\* C18: each part-3 confirm appends its turn and advances the Part-3 cursor
\* by 1; while the new cursor is below 3 the response is the theme question
\* at that cursor as p3_<cursor>; from 3 on it is the finish result, computed
\* over the whole turn history, the turn of this confirm included.
C18_Part3ThreeTurns ==
    [][(req'.op = "confirm" /\ req'.part = 3 /\ heap # <<>>) =>
          LET cursor == heap'[1].p3_idx
          IN /\ cursor = heap[1].p3_idx + 1
             /\ heap'[1].turns = Append(heap[1].turns, TurnOf(req'))
             /\ IF cursor < 3
                THEN resp' = NextQuestion(3, "p3_" \o Str(cursor),
                                          Theme(heap[1]).questions[cursor + 1])
                ELSE resp' = [result |->
                                ResultOf(metrics_from_text_and_times(
                                    Strip(JoinSp([i \in 1..Len(heap'[1].turns) |->
                                                     heap'[1].turns[i].transcript])),
                                    SumSeq([i \in 1..Len(heap'[1].turns) |->
                                               heap'[1].turns[i].duration_ms]),
                                    0))]]_vars

\* C18 witness: the third of three part-3 confirms, with the answer "traffic
\* traffic city" after two empty ones, returns a result whose lexical
\* resource band is that of the answer, not the 5.0 of an empty history.
C18_Witness ==
    /\ req.op = "confirm"
    /\ req.part = 3
    /\ req.transcript = Traffic
    /\ heap # <<>>
    /\ heap[1].p3_idx = 3
    /\ Len(heap[1].turns) = 3
    /\ \A i \in 1..2 : heap[1].turns[i].part = 3 /\ heap[1].turns[i].transcript = <<>>
    /\ IsResult(resp)
    /\ resp.result.lexical_resource = Num(9)

\* The transcripts of the turns tagged part 2, joined by single spaces.
Part2Text(sess) ==
    LET p2 == SelectSeq(sess.turns, LAMBDA u : u.part = 2)
    IN JoinSp([i \in 1..Len(p2) |-> p2[i].transcript])

OpenerStart == "Now let's talk about some broader issues related to "

\* C19: the opener of Part 3 is built from the turns tagged part 2 only: it
\* names the first min(2, n) of the n keywords extract_keywords(., 5) finds
\* in their transcripts, joined by ', ': one keyword alone when n = 1 and
\* nothing when n = 0.
C19_OpenerFromPart2 ==
    (req.op = "confirm" /\ req.part = 2 /\ "instruction" \in DOMAIN resp) =>
        LET kw == extract_keywords(Part2Text(heap[1]), 5)
            named == IF Len(kw) = 0 THEN ""
                     ELSE IF Len(kw) = 1 THEN kw[1]
                     ELSE kw[1] \o ", " \o kw[2]
        IN resp.instruction = OpenerStart \o named \o "."

\* C19 witness: after a part-1 answer "traffic traffic city" and the part-2
\* answers "city" and "Markets are busy", the opener names "busy, city" of
\* the three keywords of Part 2 and not "traffic".
C19_Witness ==
    /\ req.op = "confirm"
    /\ req.part = 2
    /\ heap # <<>>
    /\ Len(heap[1].turns) = 3
    /\ heap[1].turns[1].part = 1
    /\ heap[1].turns[1].transcript = Traffic
    /\ extract_keywords(Part2Text(heap[1]), 5) = <<"busy", "city", "markets">>
    /\ resp.instruction = OpenerStart \o "busy, city."

----------------------------------------------------------------------------
(* Concurrent confirms.                                                    *)

\* What a part-3 confirm answers with when it moves the cursor to c.
P3Tag(c) == IF c < 3 THEN "p3_" \o Str(c) ELSE "result"

\* What a part-1 confirm answers with when it moves the cursor to c.
P1Tag(c) == IF c < 9 THEN BaseId(c) ELSE "part2"

\* The question id under which the client answers a response.
AnswerId(tag) == IF tag = "part2" THEN "p2_main" ELSE tag

\* The part-3 turns among the first k turns.
P3Turns(sess, k) == Cardinality({j \in 1..k : sess.turns[j].part = 3})

\* No turn of the session answers the prompt of the response tagged tag.
NeverAnswered(sess, tag) == \A j \in 1..Len(sess.turns) : sess.turns[j].qid # AnswerId(tag)

----------------------------------------------------------------------------
(* Requests on a session that has returned its result.                     *)

\* The result session_finish computes over the turns of a session dict.
ResultOver(sess) ==
    ResultOf(metrics_from_text_and_times(
        Strip(JoinSp([i \in 1..Len(sess.turns) |-> sess.turns[i].transcript])),
        SumSeq([i \in 1..Len(sess.turns) |-> sess.turns[i].duration_ms]), 0))

C22_FinishOnlyReads ==
    [][(req'.op = "finish" /\ req'.session_id \in DOMAIN SESSIONS) =>
          /\ heap' = heap
          /\ SESSIONS' = SESSIONS
          /\ heap[SESSIONS[req'.session_id]].part \in 1..3
          /\ resp' = [result |-> ResultOver(heap[SESSIONS[req'.session_id]])]
          /\ (req.op = "finish" /\ req.session_id = req'.session_id) => resp' = resp]_vars

\* C22 witness: a session in Part 2 with its ten turns, next to a session in
\* Part 3, has been finished twice in a row with the same result.
C22_Witness ==
    /\ req.op = "finish"
    /\ Len(heap) = 2
    /\ req.session_id = heap[1].id
    /\ heap[1].part = 2
    /\ heap[1].p2_spoke
    /\ Len(heap[1].turns) = 10
    /\ heap[2].part = 3
    /\ Len(heap[2].turns) = 12
    /\ resp = [result |-> ResultOver(heap[1])]

----------------------------------------------------------------------------
(* The client's confirms.                                                  *)

\* C23: the client has at most one confirm in flight, and no upload is
\* confirmed twice: the session never holds two consecutive turns with the
\* same part, question id, transcript and duration.
C23_OneConfirmPerPrompt ==
    /\ Len(inflight) <= 1
    /\ heap # <<>> => Doubles(heap[1]) = {}

----------------------------------------------------------------------------
(* The scores of a session without speech.                                 *)

\* C24: the result returned for a session whose turns are absent or all
\* have an empty transcript and a duration of 0 is defined, and each of its
\* four bands and its overall band is below 6.5.
C24_DegenerateLow ==
    (heap # <<>> /\ Degenerate(heap[1]) /\ req.op = "finish") =>
        /\ IsResult(resp)
        /\ \A c \in Criteria \cup {"overall"} : RLt(resp.result[c], HIGH_BAND)

----------------------------------------------------------------------------
(* Requests of different sessions.                                         *)

\* C25: a request changes no session dict other than the one stored under
\* its own id, and the session stored under any other id, on which the
\* responses to that id's later requests depend, stays the same dict with
\* the same fields, whether the request is a start, a confirm or a finish.
C25_SessionIsolation ==
    [][/\ \A o \in DOMAIN heap :
            (req'.op = "start" \/ req'.session_id \notin DOMAIN SESSIONS
               \/ SESSIONS[req'.session_id] # o) => heap'[o] = heap[o]
       /\ \A sid \in DOMAIN SESSIONS :
            (req'.op = "start" \/ req'.session_id # sid) =>
                /\ sid \in DOMAIN SESSIONS'
                /\ heap'[SESSIONS'[sid]] = heap[SESSIONS[sid]]]_vars

----------------------------------------------------------------------------
(* Confirms with a part other than the session's.                          *)

\* C26: a confirm whose part is not the part of the session leaves the
\* session's part, Part-1 cursor, Part-2 flag and Part-3 cursor unchanged.
C26_ForeignPartNoEffect ==
    [][(heap # <<>> /\ req'.op = "confirm" /\ req'.part # heap[1].part) =>
          /\ heap'[1].part = heap[1].part
          /\ heap'[1].p1_idx = heap[1].p1_idx
          /\ heap'[1].p2_spoke = heap[1].p2_spoke
          /\ heap'[1].p3_idx = heap[1].p3_idx]_vars

----------------------------------------------------------------------------
(* The constant inputs of the scoring.                                     *)

\* C27: the pause_rate of every session is 0, and every result has the
\* pronunciation band 8.5 and a summary that ends with the high-band
\* pronunciation sentence.
C27_PronunciationConstant ==
    heap # <<>> =>
        /\ SessionMetrics(heap[1]).pause_rate = Num(0)
        /\ IsResult(resp) =>
             /\ resp.result.pronunciation = Rat(17, 2)
             /\ EndsWith(resp.result.summary, " " \o SUMMARY.pronunciation.high)

\* C27 witness: the result of a session with the answers "traffic traffic
\* city" and "  Markets are busy \n", whose lexical band differs from the
\* one of a session without speech, has the pronunciation band 8.5.
C27_Witness ==
    /\ req.op = "finish"
    /\ heap # <<>>
    /\ \E i, j \in 1..Len(heap[1].turns) :
         /\ heap[1].turns[i].transcript = Traffic
         /\ heap[1].turns[j].transcript = Strip(Padded)
    /\ IsResult(resp)
    /\ resp.result.lexical_resource # Num(5)
    /\ resp.result.pronunciation = Rat(17, 2)
    /\ SessionMetrics(heap[1]).pause_rate = Num(0)

====
